---- MODULE Spec2Model ----
(***************************************************************************)
(* A model of backend/app/main.py: the FastAPI service that ingests        *)
(* documents into a Chroma vector store and answers questions over them.   *)
(*                                                                         *)
(* Every endpoint is an `async def` coroutine whose body holds no `await`: *)
(* once the event loop enters a handler it runs it to its return or raise  *)
(* before it runs anything else.  The model keeps the handlers' steps      *)
(* apart (pc) and states that rule explicitly (loop, CanRun).              *)
(*                                                                         *)
(* Text is modelled at two grains.  File names and paths are sequences of  *)
(* character codes, so that os.path.join, os.path.splitext, str.lower and  *)
(* sorted() are computed as Python computes them.  Document text is a      *)
(* sequence of segments, each standing for one piece of at most chunk_size *)
(* characters; the text splitter yields one chunk per segment.             *)
(***************************************************************************)
EXTENDS Integers, Sequences, FiniteSets, TLC

\* ------------------------------------------------------------------ bounds
MaxCorpus == 6
MaxConcCorpus == 2
MaxHist == 2

\* ------------------------------------------------------- program constants
K == 5
MinPoints == 3

\* "uploads"
UPLOAD_DIRECTORY == <<117, 112, 108, 111, 97, 100, 115>>

\* ".pdf", ".docx", ".txt"
ExtPdf == <<46, 112, 100, 102>>
ExtDocx == <<46, 100, 111, 99, 120>>
ExtTxt == <<46, 116, 120, 116>>

\* --------------------------------------------------------------- inputs
\* "b.txt", "a.PDF", "c.exe", ".txt" (a name that is all extension has none)
FileNames ==
    { <<98, 46, 116, 120, 116>>, <<97, 46, 80, 68, 70>>, <<99, 46, 101, 120, 101>>,
      <<46, 116, 120, 116>> }

\* The bytes of an upload: unreadable by the loader, or a text of segments.
FileBodies ==
    { [corrupt |-> TRUE, text |-> <<>>],
      [corrupt |-> FALSE, text |-> <<>>],
      [corrupt |-> FALSE, text |-> <<1>>],
      [corrupt |-> FALSE, text |-> <<3, 1, 2>>] }

Questions == {1, 3}

Answers == {"grounded answer"}

Senders == {"user", "ai", "assistant"}

Turns == [sender : Senders, text : {2}]

SeqsUpTo(S, n) == UNION { [1..m -> S] : m \in 0..n }

Histories == SeqsUpTo(Turns, MaxHist)

Clients == {"c1", "c2"}

\* ------------------------------------------------------- string functions
Max(S) == CHOOSE x \in S : \A y \in S : y <= x

Lower(c) == IF c >= 65 /\ c <= 90 THEN c + 32 ELSE c

lower(s) == [i \in 1..Len(s) |-> Lower(s[i])]

\* os.path.join(a, b) for a relative b
join(a, b) == a \o <<47>> \o b

\* os.path.splitext(p)[1]: from the last dot on, unless that dot leads the name
splitext(p) ==
    LET dots == {i \in 1..Len(p) : p[i] = 46}
        d == IF dots = {} THEN 0 ELSE Max(dots)
    IN  IF d > 0 /\ (\E j \in 1..(d - 1) : p[j] # 46) THEN SubSeq(p, d, Len(p)) ELSE <<>>

\* Python's str.__lt__: by code point, a proper prefix first
LexLess(a, b) ==
    \E i \in 1..(Len(a) + 1) :
        /\ i <= Len(b)
        /\ \A j \in 1..(i - 1) : a[j] = b[j]
        /\ (i = Len(a) + 1 \/ a[i] < b[i])

RECURSIVE sorted(_)
sorted(S) ==
    IF S = {} THEN <<>>
    ELSE LET m == CHOOSE x \in S : \A y \in S \ {x} : LexLess(x, y)
         IN  <<m>> \o sorted(S \ {m})

file_path(filename) == join(UPLOAD_DIRECTORY, filename)

Paths == { file_path(n) : n \in FileNames }

\* ----------------------------------------------------------------- state
VARIABLES
    corpus,     \* the Chroma collection: the records in insertion order
    fs,         \* the uploads directory: path -> <<>> or <<bytes>>
    loop,       \* the client whose handler the event loop is running, or "free"
    pc,         \* client -> position of its request
    request,    \* client -> the request it sent
    locals,     \* client -> the local variables of its handler
    response    \* client -> <<>> or <<the response or HTTPException>>

vars == <<corpus, fs, loop, pc, request, locals, response>>

NoRequest ==
    [kind |-> "none", filename |-> <<>>, file |-> [corrupt |-> FALSE, text |-> <<>>],
     question |-> 0, chat_history |-> <<>>]

NoLocals ==
    [loader |-> "", read |-> <<>>, documents |-> <<>>, chunks |-> <<>>, exc |-> <<>>,
     formatted_chat_history |-> <<>>, calls |-> <<>>, query |-> <<>>, context |-> <<>>,
     answer |-> <<>>]

Init ==
    /\ corpus = <<>>
    /\ fs = [p \in Paths |-> <<>>]
    /\ loop = "free"
    /\ pc = [r \in Clients |-> "idle"]
    /\ request = [r \in Clients |-> NoRequest]
    /\ locals = [r \in Clients |-> NoLocals]
    /\ response = [r \in Clients |-> <<>>]

\* --------------------------------------------------------- the event loop
\* A coroutine is entered when the loop is free and, having no await, keeps
\* the loop until it returns or raises.
\* as if the handler held an await (or were a plain def run in the thread pool)
AnyTime(r) == TRUE

CanRun(r) == loop = "free" \/ loop = r

Runs(r) == loop = r

HTTPException(status, detail) == [status_code |-> status, detail |-> detail, content |-> <<>>]

JSONResponse(content) == [status_code |-> 200, detail |-> <<>>, content |-> <<content>>]

\* str(e) of an exception
Str(e) == IF e.type = "HTTPException" THEN <<e.status>> \o e.detail ELSE e.detail

Raised(type, status, detail) == [type |-> type, status |-> status, detail |-> detail]

\* ---------------------------------------------------------------- upload
Embed(t) == 2 * t + 1

exists(f, path) == f[path] # <<>>

remove(f, path) == [f EXCEPT ![path] = <<>>]

RemoveIfExists(f, path) == IF exists(f, path) THEN remove(f, path) ELSE f

ExceptCleanup(f, path) == RemoveIfExists(f, path)

\* the finally block without its os.remove
KeepStagedFile(f, path) == f

FinallyCleanup(f, path) == RemoveIfExists(f, path)

SelectLoader(file_extension) ==
    IF file_extension = ExtPdf THEN "PyPDFLoader"
    ELSE IF file_extension = ExtDocx THEN "UnstructuredWordDocumentLoader"
    ELSE IF file_extension = ExtTxt THEN "TextLoader"
    ELSE ""

\* text_splitter.split_documents: one chunk per segment, the metadata kept
split_documents(documents) ==
    IF documents = <<>> THEN <<>>
    ELSE [i \in 1..Len(documents[1].page_content) |->
            [page_content |-> documents[1].page_content[i], metadata |-> documents[1].metadata]]

\* an insert that skips the chunks the store already holds
add_documents_dedup(store, chunks) ==
    LET fresh == SelectSeq(chunks, LAMBDA c :
                    ~\E i \in 1..Len(store) :
                        store[i].document = c.page_content /\ store[i].metadata = c.metadata)
    IN  store \o [i \in 1..Len(fresh) |->
                    [id |-> Len(store) + i,
                     document |-> fresh[i].page_content,
                     metadata |-> fresh[i].metadata,
                     embedding |-> Embed(fresh[i].page_content)]]

\* vector_store.add_documents: every chunk embedded and appended under a fresh id
add_documents(store, chunks) ==
    store \o [i \in 1..Len(chunks) |->
                [id |-> Len(store) + i,
                 document |-> chunks[i].page_content,
                 metadata |-> chunks[i].metadata,
                 embedding |-> Embed(chunks[i].page_content)]]

Fits(store, body, max) == Len(store) + Len(body.text) <= max

Accept(r, req) ==
    /\ request' = [request EXCEPT ![r] = req]
    /\ locals' = [locals EXCEPT ![r] = NoLocals]
    /\ response' = [response EXCEPT ![r] = <<>>]

UploadRequest(n, b) == [NoRequest EXCEPT !.kind = "upload", !.filename = n, !.file = b]

\* A client sends an upload and the loop enters the handler at once.
BeginUpload(r) ==
    /\ pc[r] = "idle"
    /\ \A s \in Clients : pc[s] = "idle"
    /\ CanRun(r)
    /\ \E n \in FileNames, b \in FileBodies :
        /\ Fits(corpus, b, MaxCorpus)
        /\ Accept(r, UploadRequest(n, b))
    /\ pc' = [pc EXCEPT ![r] = "stage"]
    /\ loop' = r
    /\ UNCHANGED <<corpus, fs>>

\* lines 187-188: open(file_path, "wb") and copyfileobj
UploadStage(r) ==
    /\ pc[r] = "stage" /\ Runs(r)
    /\ fs' = [fs EXCEPT ![file_path(request[r].filename)] = <<request[r].file>>]
    /\ pc' = [pc EXCEPT ![r] = "select"]
    /\ UNCHANGED <<corpus, loop, request, locals, response>>

\* lines 191-198
UploadSelect(r) ==
    /\ pc[r] = "select" /\ Runs(r)
    /\ LET loader == SelectLoader(lower(splitext(request[r].filename)))
       IN  IF loader # ""
           THEN /\ locals' = [locals EXCEPT ![r].loader = loader]
                /\ pc' = [pc EXCEPT ![r] = "load"]
           ELSE /\ locals' = [locals EXCEPT ![r].exc =
                       <<Raised("HTTPException", "400", <<"Unsupported file type">>)>>]
                /\ pc' = [pc EXCEPT ![r] = "except"]
    /\ UNCHANGED <<corpus, fs, loop, request, response>>

\* line 201: loader.load() reads the file at file_path
UploadLoad(r) ==
    /\ pc[r] = "load" /\ Runs(r)
    /\ LET path == file_path(request[r].filename)
       IN  IF ~exists(fs, path)
           THEN /\ locals' = [locals EXCEPT ![r].exc =
                       <<Raised("FileNotFoundError", "", <<"No such file">>)>>]
                /\ pc' = [pc EXCEPT ![r] = "except"]
           ELSE IF fs[path][1].corrupt
           THEN /\ locals' = [locals EXCEPT ![r].read = fs[path],
                                           ![r].exc = <<Raised("ExtractionError", "", <<"unreadable file">>)>>]
                /\ pc' = [pc EXCEPT ![r] = "except"]
           ELSE /\ locals' = [locals EXCEPT ![r].read = fs[path],
                                           ![r].documents =
                                               <<[page_content |-> fs[path][1].text,
                                                  metadata |-> [source |-> path]]>>]
                /\ pc' = [pc EXCEPT ![r] = "split"]
    /\ UNCHANGED <<corpus, fs, loop, request, response>>

\* lines 203-207
UploadSplit(r) ==
    /\ pc[r] = "split" /\ Runs(r)
    /\ LET chunks == split_documents(locals[r].documents)
       IN  IF chunks = <<>>
           THEN /\ locals' = [locals EXCEPT ![r].exc =
                       <<Raised("HTTPException", "500", <<"Could not extract text from the PDF.">>)>>]
                /\ pc' = [pc EXCEPT ![r] = "except"]
           ELSE /\ locals' = [locals EXCEPT ![r].chunks = chunks]
                /\ pc' = [pc EXCEPT ![r] = "insert"]
    /\ UNCHANGED <<corpus, fs, loop, request, response>>

\* lines 210-217: the insert succeeds and the handler returns ...
UploadInsert(r) ==
    /\ pc[r] = "insert" /\ Runs(r)
    /\ corpus' = add_documents(corpus, locals[r].chunks)
    /\ response' = [response EXCEPT ![r] =
            <<JSONResponse([filename |-> request[r].filename,
                            chunks_count |-> Len(locals[r].chunks)])>>]
    /\ pc' = [pc EXCEPT ![r] = "finally"]
    /\ UNCHANGED <<fs, loop, request, locals>>

\* ... or the embedding or the store raises, and nothing is stored
UploadInsertFails(r) ==
    /\ pc[r] = "insert" /\ Runs(r)
    /\ locals' = [locals EXCEPT ![r].exc =
            <<Raised("VectorStoreError", "", <<"add_documents failed">>)>>]
    /\ pc' = [pc EXCEPT ![r] = "except"]
    /\ UNCHANGED <<corpus, fs, loop, request, response>>

\* lines 219-222: except Exception catches everything raised in the try block
UploadExcept(r) ==
    /\ pc[r] = "except" /\ Runs(r)
    /\ fs' = ExceptCleanup(fs, file_path(request[r].filename))
    /\ response' = [response EXCEPT ![r] =
            <<HTTPException(500, <<"An error occurred">> \o Str(locals[r].exc[1]))>>]
    /\ pc' = [pc EXCEPT ![r] = "finally"]
    /\ UNCHANGED <<corpus, loop, request, locals>>

\* lines 223-226, after which the coroutine is over and the loop is free
UploadFinally(r) ==
    /\ pc[r] = "finally" /\ Runs(r)
    /\ fs' = FinallyCleanup(fs, file_path(request[r].filename))
    /\ pc' = [pc EXCEPT ![r] = "done"]
    /\ loop' = "free"
    /\ UNCHANGED <<corpus, request, locals, response>>

\* The response has been sent; the client may send its next request.
Return(r) ==
    /\ pc[r] = "done"
    /\ pc' = [pc EXCEPT ![r] = "idle"]
    /\ request' = [request EXCEPT ![r] = NoRequest]
    /\ locals' = [locals EXCEPT ![r] = NoLocals]
    /\ response' = [response EXCEPT ![r] = <<>>]
    /\ UNCHANGED <<corpus, fs, loop>>

UploadStep(r) ==
    \/ UploadStage(r)
    \/ UploadSelect(r)
    \/ UploadLoad(r)
    \/ UploadSplit(r)
    \/ UploadInsert(r)
    \/ UploadInsertFails(r)
    \/ UploadExcept(r)
    \/ UploadFinally(r)

\* ------------------------------------------------ concurrent uploads
RECURSIVE Sum(_, _)
Sum(f, S) == IF S = {} THEN 0 ELSE LET x == CHOOSE y \in S : TRUE IN f[x] + Sum(f, S \ {x})

\* chunks that the requests already accepted may still add
Outstanding ==
    Sum([s \in Clients |-> IF pc[s] \in {"idle", "done", "finally", "except"} THEN 0
                           ELSE Len(request[s].file.text)], Clients)

\* A client's upload has been received; its handler has not been entered yet.
Arrive(r) ==
    /\ pc[r] = "idle"
    /\ \E n \in FileNames, b \in FileBodies :
        /\ Len(corpus) + Outstanding + Len(b.text) <= MaxConcCorpus
        /\ Accept(r, UploadRequest(n, b))
    /\ pc' = [pc EXCEPT ![r] = "pending"]
    /\ UNCHANGED <<corpus, fs, loop>>

\* The event loop enters the handler of a received upload.
Start(r) ==
    /\ pc[r] = "pending"
    /\ CanRun(r)
    /\ pc' = [pc EXCEPT ![r] = "stage"]
    /\ loop' = r
    /\ UNCHANGED <<corpus, fs, request, locals, response>>

\* ------------------------------------------------------------------ chat
\* the assistant's turns recognised by the sender "assistant" instead of "ai"
FormatTurnAssistant(msg) ==
    IF msg.sender = "user" THEN <<[type |-> "human", content |-> msg.text]>>
    ELSE IF msg.sender = "assistant" THEN <<[type |-> "ai", content |-> msg.text]>>
    ELSE <<>>

\* lines 153-156
FormatTurn(msg) ==
    IF msg.sender = "user" THEN <<[type |-> "human", content |-> msg.text]>>
    ELSE IF msg.sender = "ai" THEN <<[type |-> "ai", content |-> msg.text]>>
    ELSE <<>>

RECURSIVE format_chat_history(_)
format_chat_history(h) ==
    IF h = <<>> THEN <<>> ELSE FormatTurn(Head(h)) \o format_chat_history(Tail(h))

\* the model asked to reformulate on every request
AlwaysContextualize(chat_history) == TRUE

\* create_history_aware_retriever: the model is asked only when there is history
HasHistory(chat_history) == chat_history # <<>>

\* the answering chain given the standalone question
AnswerInputStandalone(input, standalone) == standalone

\* create_retrieval_chain: the question the answering chain is given
AnswerInput(input, standalone) == input

Abs(x) == IF x < 0 THEN 0 - x ELSE x

Distance(query, rec) == Abs(Embed(query) - rec.embedding)

Closer(query, a, b) ==
    \/ Distance(query, a) < Distance(query, b)
    \/ Distance(query, a) = Distance(query, b) /\ a.id < b.id

RECURSIVE Ranked(_, _)
Ranked(query, S) ==
    IF S = {} THEN <<>>
    ELSE LET m == CHOOSE x \in S : \A y \in S \ {x} : Closer(query, x, y)
         IN  <<m>> \o Ranked(query, S \ {m})

Document(rec) == [id |-> rec.id, page_content |-> rec.document, metadata |-> rec.metadata]

\* retriever.invoke: the k nearest records, nearest first
similarity_search(store, query, k) ==
    LET all == Ranked(query, {store[i] : i \in 1..Len(store)})
        n == IF Len(all) < k THEN Len(all) ELSE k
    IN  [i \in 1..n |-> Document(all[i])]

\* one entry per source name instead of one per chunk
BuildSourcesUnique(context) ==
    LET keep == {i \in 1..Len(context) :
                    \A j \in 1..(i - 1) : context[j].metadata.source # context[i].metadata.source}
        nth(k) == CHOOSE i \in keep : Cardinality({j \in keep : j <= i}) = k
    IN  [k \in 1..Cardinality(keep) |->
            [source |-> context[nth(k)].metadata.source,
             page_content |-> context[nth(k)].page_content]]

\* lines 165-170
BuildSources(context) ==
    [i \in 1..Len(context) |->
        [source |-> context[i].metadata.source, page_content |-> context[i].page_content]]

Call(to, input, history, context, output) ==
    [to |-> to, input |-> input, chat_history |-> history, context |-> context, output |-> output]

ChatRequest(q, h) == [NoRequest EXCEPT !.kind = "chat", !.question = q, !.chat_history = h]

BeginChat(r) ==
    /\ pc[r] = "idle"
    /\ \A s \in Clients : pc[s] = "idle"
    /\ CanRun(r)
    /\ \E q \in Questions, h \in Histories : Accept(r, ChatRequest(q, h))
    /\ pc' = [pc EXCEPT ![r] = "format"]
    /\ loop' = r
    /\ UNCHANGED <<corpus, fs>>

\* lines 151-156
ChatFormat(r) ==
    /\ pc[r] = "format" /\ Runs(r)
    /\ locals' = [locals EXCEPT ![r].formatted_chat_history =
                        format_chat_history(request[r].chat_history)]
    /\ pc' = [pc EXCEPT ![r] = "contextualize"]
    /\ UNCHANGED <<corpus, fs, loop, request, response>>

\* history_aware_retriever, first half: the standalone question
ChatContextualize(r) ==
    /\ pc[r] = "contextualize" /\ Runs(r)
    /\ IF HasHistory(locals[r].formatted_chat_history)
       THEN \E standalone \in Questions :
               locals' = [locals EXCEPT
                   ![r].calls = Append(@, Call("contextualize", request[r].question,
                                               locals[r].formatted_chat_history, <<>>, standalone)),
                   ![r].query = <<standalone>>]
       ELSE locals' = [locals EXCEPT ![r].query = <<request[r].question>>]
    /\ pc' = [pc EXCEPT ![r] = "retrieve"]
    /\ UNCHANGED <<corpus, fs, loop, request, response>>

\* lines 174-175: whatever is raised inside the handler leaves as a 500
ChatRaise(r, at, what) ==
    /\ pc[r] = at /\ Runs(r)
    /\ locals' = [locals EXCEPT ![r].exc = <<Raised("LanguageModelError", "", <<what>>)>>]
    /\ response' = [response EXCEPT ![r] =
            <<HTTPException(500, <<"An error occurred in the chat endpoint", what>>)>>]
    /\ pc' = [pc EXCEPT ![r] = "done"]
    /\ loop' = "free"
    /\ UNCHANGED <<corpus, fs, request>>

ChatContextualizeFails(r) ==
    /\ HasHistory(locals[r].formatted_chat_history)
    /\ ChatRaise(r, "contextualize", "contextualize call failed")

\* history_aware_retriever, second half: the retriever is given the query
ChatRetrieve(r) ==
    /\ pc[r] = "retrieve" /\ Runs(r)
    /\ LET docs == similarity_search(corpus, locals[r].query[1], K)
       IN  locals' = [locals EXCEPT
               ![r].calls = Append(@, Call("retrieve", locals[r].query[1], <<>>, <<>>, docs)),
               ![r].context = docs]
    /\ pc' = [pc EXCEPT ![r] = "answer"]
    /\ UNCHANGED <<corpus, fs, loop, request, response>>

\* question_answer_chain
ChatAnswer(r) ==
    /\ pc[r] = "answer" /\ Runs(r)
    /\ \E a \in Answers :
        locals' = [locals EXCEPT
            ![r].calls = Append(@, Call("answer",
                                        AnswerInput(request[r].question, locals[r].query[1]),
                                        locals[r].formatted_chat_history, locals[r].context, a)),
            ![r].answer = <<a>>]
    /\ pc' = [pc EXCEPT ![r] = "sources"]
    /\ UNCHANGED <<corpus, fs, loop, request, response>>

ChatAnswerFails(r) == ChatRaise(r, "answer", "answer call failed")

\* lines 165-172
ChatSources(r) ==
    /\ pc[r] = "sources" /\ Runs(r)
    /\ response' = [response EXCEPT ![r] =
            <<JSONResponse([answer |-> locals[r].answer[1],
                            sources |-> BuildSources(locals[r].context)])>>]
    /\ pc' = [pc EXCEPT ![r] = "done"]
    /\ loop' = "free"
    /\ UNCHANGED <<corpus, fs, request, locals>>

ChatStep(r) ==
    \/ ChatFormat(r)
    \/ ChatContextualize(r)
    \/ ChatContextualizeFails(r)
    \/ ChatRetrieve(r)
    \/ ChatAnswer(r)
    \/ ChatAnswerFails(r)
    \/ ChatSources(r)

\* ------------------------------------------------------------- visualize
\* TSNE(n_components=2, perplexity, random_state=42).fit_transform: a fixed
\* function of the vectors, one 2-D point per vector
fit_transform(embeddings, perplexity) ==
    [i \in 1..Len(embeddings) |-> <<embeddings[i] - perplexity, i * embeddings[i]>>]

\* the threshold off by one
TooFewBelowTwo(embeddings) == Len(embeddings) < MinPoints - 1

TooFew(embeddings) == Len(embeddings) < MinPoints

visualize_documents(store) ==
    LET embeddings == [i \in 1..Len(store) |-> store[i].embedding]
        metadatas == [i \in 1..Len(store) |-> store[i].metadata]
        documents == [i \in 1..Len(store) |-> store[i].document]
        perplexity == IF 30 < Len(embeddings) - 1 THEN 30 ELSE Len(embeddings) - 1
        tsne_results == fit_transform(embeddings, perplexity)
    IN  IF Len(store) = 0
        THEN HTTPException(404, <<"No documents found to visualize.">>)
        ELSE IF TooFew(embeddings)
        THEN HTTPException(400, <<"Not enough documents (need at least 3) to create a meaningful visualization.">>)
        ELSE JSONResponse([i \in 1..Len(metadatas) |->
                [x |-> tsne_results[i][1], y |-> tsne_results[i][2],
                 text |-> documents[i], source |-> metadatas[i].source]])

Visualize(r) ==
    /\ pc[r] = "idle"
    /\ \A s \in Clients : pc[s] = "idle"
    /\ CanRun(r)
    /\ request' = [request EXCEPT ![r] = [NoRequest EXCEPT !.kind = "visualize"]]
    /\ locals' = [locals EXCEPT ![r] = NoLocals]
    /\ response' = [response EXCEPT ![r] = <<visualize_documents(corpus)>>]
    /\ pc' = [pc EXCEPT ![r] = "done"]
    /\ UNCHANGED <<corpus, fs, loop>>

\* ------------------------------------------------------------------ list
unique_sources(metadatas) == {metadatas[i].source : i \in 1..Len(metadatas)}

\* the sources as stored, neither deduplicated nor sorted
list_documents_as_stored(store) ==
    JSONResponse([i \in 1..Len(store) |-> store[i].metadata.source])

list_documents(store) ==
    LET metadatas == [i \in 1..Len(store) |-> store[i].metadata]
    IN  IF Len(store) = 0 THEN JSONResponse(<<>>)
        ELSE JSONResponse(sorted(unique_sources(metadatas)))

List(r) ==
    /\ pc[r] = "idle"
    /\ \A s \in Clients : pc[s] = "idle"
    /\ CanRun(r)
    /\ request' = [request EXCEPT ![r] = [NoRequest EXCEPT !.kind = "list"]]
    /\ locals' = [locals EXCEPT ![r] = NoLocals]
    /\ response' = [response EXCEPT ![r] = <<list_documents(corpus)>>]
    /\ pc' = [pc EXCEPT ![r] = "done"]
    /\ UNCHANGED <<corpus, fs, loop>>

\* -------------------------------------------------------- specifications
\* One client sending one request after another, over all four endpoints.
Next ==
    \E r \in {"c1"} :
        \/ BeginUpload(r)
        \/ UploadStep(r)
        \/ BeginChat(r)
        \/ ChatStep(r)
        \/ Visualize(r)
        \/ List(r)
        \/ Return(r)

Spec == Init /\ [][Next]_vars

\* Two clients whose uploads overlap.
NextConc ==
    \E r \in Clients :
        \/ Arrive(r)
        \/ Start(r)
        \/ UploadStep(r)
        \/ Return(r)

SpecConc == Init /\ [][NextConc]_vars

\* ---------------------------------------------------------------- claims
Done(r, kind) == pc[r] = "done" /\ request[r].kind = kind

Resp(r) == response[r][1]

Staged == {"select", "load", "split", "insert", "except", "finally"}

Supported(filename) == lower(splitext(filename)) \in {ExtPdf, ExtDocx, ExtTxt}

\* C1: whenever an upload request has completed, whatever its outcome, no file
\* is left at uploads/<filename>; a file exists in the uploads directory only
\* while the handler that staged it is still running.
NoOrphanedUpload ==
    /\ \A r \in Clients : Done(r, "upload") => ~exists(fs, file_path(request[r].filename))
    /\ \A p \in Paths :
        exists(fs, p) =>
            \E r \in Clients :
                /\ request[r].kind = "upload"
                /\ pc[r] \in Staged
                /\ file_path(request[r].filename) = p

\* An upload that was staged, loaded and split, whose insert failed, has completed.
FailedInsertCleanedUp ==
    \E r \in Clients :
        /\ Done(r, "upload")
        /\ locals[r].chunks # <<>>
        /\ locals[r].exc # <<>> /\ locals[r].exc[1].type = "VectorStoreError"
        /\ Resp(r).status_code = 500
        /\ \A p \in Paths : ~exists(fs, p)

\* C2: an upload whose extension is none of .pdf, .docx, .txt (case ignored)
\* completes with the 400 unsupported-file-type error, not with the 500 that
\* extraction and indexing failures give, and stores no record.
UnsupportedTypeIsUserError ==
    \A r \in Clients :
        Done(r, "upload") /\ ~Supported(request[r].filename) =>
            /\ Resp(r).status_code = 400
            /\ Resp(r).detail = <<"Unsupported file type">>
            /\ locals[r].chunks = <<>>

\* C3 as stated: every turn with sender user or assistant reaches the pipeline,
\* in order, as a human or an assistant message with the turn's text.
HistoryMirrorsEveryTurn ==
    \A r \in Clients :
        LET h == request[r].chat_history
            f == locals[r].formatted_chat_history
        IN  /\ request[r].kind = "chat"
            /\ pc[r] \notin {"idle", "format"}
            /\ \A i \in 1..Len(h) : h[i].sender \in {"user", "assistant"}
            => /\ Len(f) = Len(h)
               /\ \A i \in 1..Len(h) :
                    /\ f[i].content = h[i].text
                    /\ f[i].type = (IF h[i].sender = "user" THEN "human" ELSE "ai")

\* C3 amended: the history handed to the reformulation and answering steps is
\* the request's turns with sender user or ai, in order and with their text,
\* user as a human and ai as an assistant message; a turn with any other
\* sender (assistant among them) is left out, so the pipeline's history is
\* empty exactly when no turn has sender user or ai.
HistoryKeepsUserAndAiTurns ==
    \A r \in Clients :
        LET h == request[r].chat_history
            f == locals[r].formatted_chat_history
            kept == {i \in 1..Len(h) : h[i].sender \in {"user", "ai"}}
        IN  request[r].kind = "chat" /\ pc[r] \notin {"idle", "format"} =>
               /\ Len(f) = Cardinality(kept)
               /\ \E g \in [1..Len(f) -> kept] :
                    /\ \A i, j \in 1..Len(f) : i < j => g[i] < g[j]
                    /\ \A j \in 1..Len(f) :
                        /\ f[j].content = h[g[j]].text
                        /\ f[j].type = (IF h[g[j]].sender = "user" THEN "human" ELSE "ai")
               /\ (f = <<>>) <=> (kept = {})
               /\ \A i \in 1..Len(locals[r].calls) :
                    locals[r].calls[i].to \in {"contextualize", "answer"} =>
                        locals[r].calls[i].chat_history = f

\* A chat whose history holds an ai turn and an assistant turn has been answered.
AiKeptAssistantDropped ==
    \E r \in Clients :
        /\ Done(r, "chat") /\ Resp(r).status_code = 200
        /\ Len(request[r].chat_history) = 2
        /\ request[r].chat_history[1].sender = "assistant"
        /\ request[r].chat_history[2].sender = "ai"
        /\ Len(locals[r].formatted_chat_history) = 1

Nearer(query, a, b) ==
    LET da == Abs(Embed(query) - a.embedding)
        db == Abs(Embed(query) - b.embedding)
    IN  da < db \/ (da = db /\ a.id < b.id)

\* C4: the sources of a successful chat are one entry per retrieved chunk, at
\* most k = 5, nearest first, each with the stored record's whole text and its
\* source.
SourcesMirrorContext ==
    \A r \in Clients :
        Done(r, "chat") /\ Resp(r).status_code = 200 =>
            LET src == Resp(r).content[1].sources
                ctx == locals[r].context
                q == locals[r].query[1]
                used == {ctx[i].id : i \in 1..Len(ctx)}
            IN  /\ Len(src) = Len(ctx)
                /\ Len(src) <= K
                /\ Len(src) = (IF Len(corpus) < K THEN Len(corpus) ELSE K)
                /\ used \subseteq 1..Len(corpus)
                /\ \A i \in 1..Len(src) :
                    /\ src[i].page_content = corpus[ctx[i].id].document
                    /\ src[i].source = corpus[ctx[i].id].metadata.source
                /\ \A i, j \in 1..Len(ctx) :
                    i < j => Nearer(q, corpus[ctx[i].id], corpus[ctx[j].id])
                /\ \A n \in (1..Len(corpus)) \ used :
                    \A i \in 1..Len(ctx) : Nearer(q, corpus[ctx[i].id], corpus[n])

\* A chat over more than k records returned k sources, not in stored order.
SourcesCappedAndRanked ==
    \E r \in Clients :
        /\ Done(r, "chat") /\ Resp(r).status_code = 200
        /\ Len(corpus) > K
        /\ Len(Resp(r).content[1].sources) = K
        /\ \E i, j \in 1..K : i < j /\ locals[r].context[i].id > locals[r].context[j].id

CallNames(c) == [i \in 1..Len(c) |-> c[i].to]

IsPrefix(a, b) == Len(a) <= Len(b) /\ a = SubSeq(b, 1, Len(a))

\* C5 as stated: whenever the request's history is non-empty, the retriever is
\* given the output of a reformulation call.
ReformulatedWheneverHistory ==
    \A r \in Clients :
        /\ request[r].kind = "chat"
        /\ pc[r] \in {"answer", "sources"}
        /\ request[r].chat_history # <<>>
        => \E i \in 1..Len(locals[r].calls) :
               /\ locals[r].calls[i].to = "contextualize"
               /\ locals[r].query = <<locals[r].calls[i].output>>

\* C5 amended: the calls of one chat are made in the order reformulate,
\* retrieve, answer; the answering step is given the caller's question and the
\* pipeline's history; the retriever is given the output of the reformulation
\* call whenever the pipeline's history (the turns with sender user or ai) is
\* non-empty, and the caller's question, with no reformulation call, when it
\* is empty, as it is for a request whose turns all have other senders.
PipelineOrderAndQuestions ==
    \A r \in Clients :
        request[r].kind = "chat" =>
            LET c == locals[r].calls
                f == locals[r].formatted_chat_history
            IN  /\ IF f # <<>>
                   THEN IsPrefix(CallNames(c), <<"contextualize", "retrieve", "answer">>)
                   ELSE IsPrefix(CallNames(c), <<"retrieve", "answer">>)
                /\ pc[r] \in {"answer", "sources"} => CallNames(c)[Len(c) - (IF pc[r] = "answer" THEN 0 ELSE 1)] = "retrieve"
                /\ \A i \in 1..Len(c) :
                    /\ c[i].to = "contextualize" =>
                        c[i].input = request[r].question /\ c[i].chat_history = f
                    /\ c[i].to = "retrieve" =>
                        IF f # <<>> THEN c[i].input = c[i - 1].output
                        ELSE c[i].input = request[r].question
                    /\ c[i].to = "answer" =>
                        /\ c[i].input = request[r].question
                        /\ c[i].chat_history = f
                        /\ c[i].context = c[i - 1].output

\* A chat with history was answered, its standalone question differing from
\* the caller's.
TwoQuestionsKeptApart ==
    \E r \in Clients :
        /\ Done(r, "chat") /\ Resp(r).status_code = 200
        /\ Len(locals[r].calls) = 3
        /\ locals[r].calls[1].output # request[r].question
        /\ locals[r].calls[2].input = locals[r].calls[1].output
        /\ locals[r].calls[3].input = request[r].question

\* C6: over an empty corpus a chat retrieves an empty context and fails only
\* if a language-model call fails; otherwise it completes with an answer and
\* no sources.  With an empty history the retriever is given the question as
\* it is and the model is not asked to reformulate.
EmptyCorpusChat ==
    \A r \in Clients :
        request[r].kind = "chat" /\ corpus = <<>> =>
            /\ locals[r].context = <<>>
            /\ \A i \in 1..Len(locals[r].calls) :
                locals[r].calls[i].to = "retrieve" => locals[r].calls[i].output = <<>>
            /\ pc[r] = "done" =>
                \/ /\ Resp(r).status_code = 200
                   /\ Resp(r).content[1].sources = <<>>
                   /\ Resp(r).content[1].answer \in Answers
                \/ /\ Resp(r).status_code = 500
                   /\ locals[r].exc # <<>>
                   /\ locals[r].exc[1].type = "LanguageModelError"
            /\ request[r].chat_history = <<>> =>
                /\ \A i \in 1..Len(locals[r].calls) : locals[r].calls[i].to # "contextualize"
                /\ locals[r].query \in {<<>>, <<request[r].question>>}

\* A chat with no history over the empty corpus was answered.
EmptyCorpusAnswered ==
    \E r \in Clients :
        /\ Done(r, "chat") /\ corpus = <<>>
        /\ request[r].chat_history = <<>>
        /\ Resp(r).status_code = 200
        /\ Resp(r).content[1].sources = <<>>
        /\ Len(locals[r].calls) = 2

\* C7 as stated: with fewer than 3 records visualize fails with the
\* insufficient-data error.
FewerThanThreeIsInsufficient ==
    \A r \in Clients :
        Done(r, "visualize") /\ Len(corpus) < 3 =>
            /\ Resp(r).status_code = 400
            /\ Resp(r).detail = <<"Not enough documents (need at least 3) to create a meaningful visualization.">>

\* C7 amended: with 1 or 2 records visualize fails with the insufficient-data
\* error (400), with no record it fails with the not-found error (404), each
\* surfaced as itself and not as a 500; with 3 or more it returns one point
\* per record, in stored order, with that record's text and source.
VisualizeOutcome ==
    \A r \in Clients :
        Done(r, "visualize") =>
            /\ Len(corpus) = 0 =>
                /\ Resp(r).status_code = 404
                /\ Resp(r).detail = <<"No documents found to visualize.">>
            /\ Len(corpus) \in {1, 2} =>
                /\ Resp(r).status_code = 400
                /\ Resp(r).detail = <<"Not enough documents (need at least 3) to create a meaningful visualization.">>
            /\ Len(corpus) >= 3 =>
                /\ Resp(r).status_code = 200
                /\ Len(Resp(r).content[1]) = Len(corpus)
                /\ \A i \in 1..Len(corpus) :
                    /\ DOMAIN Resp(r).content[1][i] = {"x", "y", "text", "source"}
                    /\ Resp(r).content[1][i].text = corpus[i].document
                    /\ Resp(r).content[1][i].source = corpus[i].metadata.source

\* visualize was refused over a corpus of exactly two records.
TwoRecordsRefused ==
    \E r \in Clients :
        /\ Done(r, "visualize")
        /\ Len(corpus) = 2
        /\ Resp(r).status_code = 400

\* C8: the list endpoint returns the sources of the stored records, each once,
\* in ascending code-point order; nothing for an empty corpus.
ListIsSortedSetOfSources ==
    \A r \in Clients :
        Done(r, "list") =>
            LET names == Resp(r).content[1]
            IN  /\ Resp(r).status_code = 200
                /\ \A i, j \in 1..Len(names) : i < j => LexLess(names[i], names[j])
                /\ {names[i] : i \in 1..Len(names)} =
                        {corpus[i].metadata.source : i \in 1..Len(corpus)}
                /\ corpus = <<>> => names = <<>>

\* The list of a corpus whose records repeat sources and were stored in
\* descending order of source.
ListOfRepeatedSources ==
    \E r \in Clients :
        /\ Done(r, "list")
        /\ Len(corpus) >= 4
        /\ Len(Resp(r).content[1]) = 2
        /\ corpus[1].metadata.source = Resp(r).content[1][2]

\* C9: the corpus only ever grows at its end, and only by the insert of an
\* upload, which adds exactly one record per chunk of the document, whether
\* stored before or not, and reports that number as chunks_count.
AppendOnly ==
    [][ /\ Len(corpus') >= Len(corpus)
        /\ SubSeq(corpus', 1, Len(corpus)) = corpus
        /\ corpus' # corpus =>
            \E r \in Clients :
                /\ request[r].kind = "upload"
                /\ pc[r] = "insert"
                /\ Len(corpus') = Len(corpus) + Len(request[r].file.text)
        /\ \A r \in Clients :
            /\ request[r].kind = "upload"
            /\ response[r] = <<>>
            /\ response'[r] # <<>>
            /\ response'[r][1].status_code = 200
            => /\ response'[r][1].content[1].chunks_count = Len(request[r].file.text)
               /\ Len(corpus') = Len(corpus) + Len(request[r].file.text)
               /\ \A i \in 1..Len(request[r].file.text) :
                    /\ corpus'[Len(corpus) + i].document = request[r].file.text[i]
                    /\ corpus'[Len(corpus) + i].metadata.source = file_path(request[r].filename)
      ]_vars

\* The same three-chunk document has been ingested twice.
SameDocumentTwice ==
    \E r \in Clients :
        /\ Done(r, "upload") /\ Resp(r).status_code = 200
        /\ Resp(r).content[1].chunks_count = 3
        /\ Len(corpus) = 6
        /\ \A i \in 1..3 :
            /\ corpus[i].document = corpus[i + 3].document
            /\ corpus[i].metadata = corpus[i + 3].metadata

\* The response of an upload that ran alone.
AloneStatus(r) ==
    IF ~Supported(request[r].filename) \/ request[r].file.corrupt \/ request[r].file.text = <<>>
    THEN {500}
    ELSE {200, 500}

AloneDetail(r) ==
    IF ~Supported(request[r].filename) THEN <<"An error occurred", "400", "Unsupported file type">>
    ELSE IF request[r].file.corrupt THEN <<"An error occurred", "unreadable file">>
    ELSE IF request[r].file.text = <<>>
    THEN <<"An error occurred", "500", "Could not extract text from the PDF.">>
    ELSE <<"An error occurred", "add_documents failed">>

\* C10: of two clients whose uploads overlap, with equal or different
\* filenames, each handler finds at uploads/<filename> the bytes it staged
\* until it has loaded them, loads and indexes exactly those bytes, and
\* answers as it would have alone.
UploadsDoNotInterfere ==
    /\ [](\A r \in Clients :
            request[r].kind = "upload" =>
                /\ pc[r] \in {"select", "load"} =>
                    fs[file_path(request[r].filename)] = <<request[r].file>>
                /\ locals[r].read \in {<<>>, <<request[r].file>>}
                /\ pc[r] \in {"split", "insert"} => locals[r].read = <<request[r].file>>
                /\ pc[r] = "done" =>
                    /\ Resp(r).status_code \in AloneStatus(r)
                    /\ Resp(r).status_code = 500 => Resp(r).detail = AloneDetail(r)
                    /\ Resp(r).status_code = 200 =>
                        Resp(r).content[1] = [filename |-> request[r].filename,
                                              chunks_count |-> Len(request[r].file.text)])
    /\ [][\A r \in Clients :
            pc[r] = "insert" /\ pc'[r] = "finally" =>
                /\ Len(corpus') = Len(corpus) + Len(request[r].file.text)
                /\ \A i \in 1..Len(request[r].file.text) :
                    /\ corpus'[Len(corpus) + i].document = request[r].file.text[i]
                    /\ corpus'[Len(corpus) + i].metadata.source = file_path(request[r].filename)
         ]_vars

\* One handler is about to load uploads/<filename> while another upload of
\* the same filename, with other bytes, has been received and waits.
OverlappingUploadsOfOneName ==
    \E r, s \in Clients :
        /\ r # s
        /\ pc[r] = "load" /\ pc[s] = "pending"
        /\ request[r].filename = request[s].filename
        /\ request[r].file # request[s].file
        /\ ~request[r].file.corrupt /\ ~request[s].file.corrupt

====
